---- MODULE Spec2Model ----
(***************************************************************************)
(* Dungeon-instance scheduler (csopesy_p2): one scheduler thread hands     *)
(* parties (1 tank, 1 healer, 3 dps) from a shared pool to instance        *)
(* threads, all cooperating over one global mutex, one condition variable  *)
(* for the scheduler and one per instance.                                 *)
(*                                                                         *)
(* Every action is one step of one thread: a lock acquisition, a critical  *)
(* section up to the next point where the mutex is released, or one        *)
(* unlocked statement of the timed run.                                    *)
(***************************************************************************)
EXTENDS Integers, Sequences, FiniteSets

\* ---- bounds of the explored configurations (values typed in at start-up)
MaxInstances == 2
MaxTanks == 2
MaxHealers == 2
MaxDps == 6
MaxTime == 2

\* ---- the party rule, hard-coded in the scheduler
TankCost == 1
HealerCost == 1
DpsCost == 3

VARIABLES
    tanks, healers, dps,   \* player pool (globals)
    t1, t2,                \* dungeon run time bounds (globals)
    partyNum,              \* number of the next party to be formed
    stopFlag,              \* atomic<bool> stopFlag
    instances,             \* vector<shared_ptr<Instance>>: sequence of records
    globalMutex,           \* owner of globalMutex (Unlocked, ByScheduler, ByInstance(i))
    pcSched,               \* position of schedulerThread
    pcInst,                \* position of each instanceThread
    duration,              \* instanceThread's local `duration`
    loopI,                 \* instanceThread's local loop counter `i`
    input                  \* the pool as read by main: <<tanks, healers, dps>>

vars == <<tanks, healers, dps, t1, t2, partyNum, stopFlag, instances,
          globalMutex, pcSched, pcInst, duration, loopI, input>>

Slots == 1..Len(instances)

\* owners of globalMutex
Unlocked == <<"none">>
ByScheduler == <<"scheduler">>
ByInstance(i) == <<"instance", i>>

\* struct Instance after construction
NewInstance(id) ==
    [id |-> id, hasParty |-> FALSE, running |-> FALSE, partiesServed |-> 0,
     totalTime |-> 0, currentTimeElapsed |-> 0, currDungeonDuration |-> 0]

\* ---- pure helpers -------------------------------------------------------

\* a rule check that forgets the tank
HasMorePlayersNoTank(t, h, d) == h >= HealerCost /\ d >= DpsCost

\* a rule check that asks for one dps only
HasMorePlayersOneDps(t, h, d) == t >= TankCost /\ h >= HealerCost /\ d >= 1

\* tanks >= 1 && healers >= 1 && dps >= 3
HasMorePlayers(t, h, d) == t >= TankCost /\ h >= HealerCost /\ d >= DpsCost

\* !inst->hasParty && !inst->running
IsFree(inst) == ~inst.hasParty /\ ~inst.running

\* any_of(instances, free)
AnyFree(insts) == \E k \in 1..Len(insts) : IsFree(insts[k])

\* a termination scan that looks at the running flag only
AnyRunningFlagOnly(insts) == \E k \in 1..Len(insts) : insts[k].running

\* the scan of the termination check: inst->hasParty || inst->running
AnyRunning(insts) == \E k \in 1..Len(insts) : insts[k].hasParty \/ insts[k].running

\* a wake predicate without the free-instance clause
SchedulerPredicateNoFree ==
    \/ HasMorePlayers(tanks, healers, dps)
    \/ stopFlag
    \/ Len(instances) = 0

\* predicate of cv_scheduler.wait
SchedulerPredicate ==
    \/ HasMorePlayers(tanks, healers, dps)
    \/ stopFlag
    \/ AnyFree(instances)
    \/ Len(instances) = 0

\* predicate of instance->cv.wait
InstancePredicate(i) == instances[i].hasParty \/ stopFlag

\* a distribution whose upper bound is one too high
getRandomTimePastMax == t1..(t2 + 1)

\* values uniform_int_distribution<>(t1, t2) can return
getRandomTime == t1..t2

\* an assignment loop that scans the vector from the back
AssignTargetFromBack(insts, t, h, d) ==
    IF HasMorePlayers(t, h, d) /\ AnyFree(insts)
    THEN CHOOSE k \in 1..Len(insts) :
            IsFree(insts[k]) /\ \A j \in (k + 1)..Len(insts) : ~IsFree(insts[j])
    ELSE 0

\* an assignment loop that wants more than three dps left
AssignTargetStrict(insts, t, h, d) ==
    IF HasMorePlayers(t, h, d) /\ d > DpsCost /\ AnyFree(insts)
    THEN CHOOSE k \in 1..Len(insts) :
            IsFree(insts[k]) /\ \A j \in 1..(k - 1) : ~IsFree(insts[j])
    ELSE 0

\* the slot the assignment loop picks: the first free one in vector order,
\* 0 when the loop assigns nothing
AssignTarget(insts, t, h, d) ==
    IF HasMorePlayers(t, h, d) /\ AnyFree(insts)
    THEN CHOOSE k \in 1..Len(insts) :
            IsFree(insts[k]) /\ \A j \in 1..(k - 1) : ~IsFree(insts[j])
    ELSE 0

\* a debit that takes one dps too few
DebitTwoDps(pool) == <<pool[1] - TankCost, pool[2] - HealerCost, pool[3] - (DpsCost - 1)>>

\* tanks--; healers--; dps -= 3;
Debit(pool) == <<pool[1] - TankCost, pool[2] - HealerCost, pool[3] - DpsCost>>

\* a notification that reaches nobody
NotifyNobody(pcs, woken) == pcs

\* instance->cv.notify_one() / notify_all(): a thread blocked in wait is made
\* runnable (it still has to reacquire the mutex); otherwise nothing happens
NotifyInstances(pcs, woken) ==
    [k \in 1..Len(pcs) |-> IF k \in woken /\ pcs[k] = "waiting" THEN "woken" ELSE pcs[k]]

\* a completion that does not notify the scheduler
NotifySchedulerLost(pc) == pc

\* cv_scheduler.notify_all()
NotifyScheduler(pc) == IF pc = "waiting" THEN "woken" ELSE pc

\* ---- start-up -------------------------------------------------------------

\* main: the six validated inputs, the instances vector, all threads started
Init ==
    /\ \E n \in 0..MaxInstances :
         /\ instances = [k \in 1..n |-> NewInstance(k)]
         /\ pcInst = [k \in 1..n |-> "start"]
         /\ duration = [k \in 1..n |-> 0]
         /\ loopI = [k \in 1..n |-> 0]
    /\ tanks \in 0..MaxTanks
    /\ healers \in 0..MaxHealers
    /\ dps \in 0..MaxDps
    /\ t1 \in 0..MaxTime
    /\ t2 \in t1..MaxTime
    /\ input = <<tanks, healers, dps>>
    /\ partyNum = 1
    /\ stopFlag = FALSE
    /\ globalMutex = Unlocked
    /\ pcSched = "start"

\* ---- instanceThread --------------------------------------------------------

\* unique_lock constructor, the reacquisition inside cv.wait after a wake-up,
\* and lock.lock() after the run
InstLock(i) ==
    /\ pcInst[i] \in {"start", "woken", "relock"}
    /\ globalMutex = Unlocked
    /\ globalMutex' = ByInstance(i)
    /\ pcInst' = [pcInst EXCEPT ![i] = IF @ = "relock" THEN "complete" ELSE "check"]
    /\ UNCHANGED <<tanks, healers, dps, t1, t2, partyNum, stopFlag, instances,
                   pcSched, duration, loopI, input>>

\* while (!stopFlag) { cv.wait(pred); if (stopFlag) break; ... } with the mutex
\* held: leave the loop on stopFlag (the lock is released by the destructor)
InstExit(i) ==
    /\ pcInst[i] = "check"
    /\ globalMutex = ByInstance(i)
    /\ stopFlag
    /\ pcInst' = [pcInst EXCEPT ![i] = "done"]
    /\ globalMutex' = Unlocked
    /\ UNCHANGED <<tanks, healers, dps, t1, t2, partyNum, stopFlag, instances,
                   pcSched, duration, loopI, input>>

\* cv.wait with a false predicate: release the mutex and block
InstWait(i) ==
    /\ pcInst[i] = "check"
    /\ globalMutex = ByInstance(i)
    /\ ~stopFlag
    /\ ~InstancePredicate(i)
    /\ pcInst' = [pcInst EXCEPT ![i] = "waiting"]
    /\ globalMutex' = Unlocked
    /\ UNCHANGED <<tanks, healers, dps, t1, t2, partyNum, stopFlag, instances,
                   pcSched, duration, loopI, input>>

\* a party is there: draw the duration, mark the instance running, unlock
InstBegin(i) ==
    /\ pcInst[i] = "check"
    /\ globalMutex = ByInstance(i)
    /\ ~stopFlag
    /\ InstancePredicate(i)
    /\ \E d \in getRandomTime :
         /\ duration' = [duration EXCEPT ![i] = d]
         /\ instances' = [instances EXCEPT ![i].running = TRUE,
                                           ![i].currDungeonDuration = d]
    /\ pcInst' = [pcInst EXCEPT ![i] = "firstTick"]
    /\ globalMutex' = Unlocked
    /\ UNCHANGED <<tanks, healers, dps, t1, t2, partyNum, stopFlag,
                   pcSched, loopI, input>>

\* sleep_for(1s); currentTimeElapsed++;  then  for (int i = 1; ...
InstFirstTick(i) ==
    /\ pcInst[i] = "firstTick"
    /\ instances' = [instances EXCEPT ![i].currentTimeElapsed = @ + 1]
    /\ loopI' = [loopI EXCEPT ![i] = 1]
    /\ pcInst' = [pcInst EXCEPT ![i] = "ticks"]
    /\ UNCHANGED <<tanks, healers, dps, t1, t2, partyNum, stopFlag,
                   globalMutex, pcSched, duration, input>>

\* one iteration of for (i = 1; i < duration; ++i) { sleep; elapsed++ }
InstTick(i) ==
    /\ pcInst[i] = "ticks"
    /\ loopI[i] < duration[i]
    /\ instances' = [instances EXCEPT ![i].currentTimeElapsed = @ + 1]
    /\ loopI' = [loopI EXCEPT ![i] = @ + 1]
    /\ UNCHANGED <<tanks, healers, dps, t1, t2, partyNum, stopFlag,
                   globalMutex, pcSched, pcInst, duration, input>>

\* the for loop ends; next statement is lock.lock()
InstTicksDone(i) ==
    /\ pcInst[i] = "ticks"
    /\ ~(loopI[i] < duration[i])
    /\ pcInst' = [pcInst EXCEPT ![i] = "relock"]
    /\ UNCHANGED <<tanks, healers, dps, t1, t2, partyNum, stopFlag, instances,
                   globalMutex, pcSched, duration, loopI, input>>

\* a write-back that adds the elapsed counter, not the drawn duration
CompletedAddsElapsed(inst, d) ==
    [inst EXCEPT !.running = FALSE, !.hasParty = FALSE,
                 !.partiesServed = @ + 1, !.totalTime = @ + inst.currentTimeElapsed,
                 !.currentTimeElapsed = 0]

\* a write-back that leaves the elapsed counter where the run took it
CompletedKeepsElapsed(inst, d) ==
    [inst EXCEPT !.running = FALSE, !.hasParty = FALSE,
                 !.partiesServed = @ + 1, !.totalTime = @ + d]

\* the write-back after the run
Completed(inst, d) ==
    [inst EXCEPT !.running = FALSE, !.hasParty = FALSE,
                 !.partiesServed = @ + 1, !.totalTime = @ + d,
                 !.currentTimeElapsed = 0]

\* publish the completion under the mutex and notify the scheduler; the
\* thread keeps the mutex and goes back to the head of its loop
InstComplete(i) ==
    /\ pcInst[i] = "complete"
    /\ globalMutex = ByInstance(i)
    /\ instances' = [instances EXCEPT ![i] = Completed(@, duration[i])]
    /\ pcSched' = NotifyScheduler(pcSched)
    /\ pcInst' = [pcInst EXCEPT ![i] = "check"]
    /\ UNCHANGED <<tanks, healers, dps, t1, t2, partyNum, stopFlag,
                   globalMutex, duration, loopI, input>>

\* ---- schedulerThread -------------------------------------------------------

\* unique_lock constructor, reacquisition inside cv_scheduler.wait, and
\* lock.lock() after the 100 ms back-off
SchedLock ==
    /\ pcSched \in {"start", "woken", "backoff"}
    /\ globalMutex = Unlocked
    /\ globalMutex' = ByScheduler
    /\ pcSched' = "check"
    /\ UNCHANGED <<tanks, healers, dps, t1, t2, partyNum, stopFlag, instances,
                   pcInst, duration, loopI, input>>

\* cv_scheduler.wait with a false predicate: release the mutex and block
SchedWait ==
    /\ pcSched = "check"
    /\ globalMutex = ByScheduler
    /\ ~SchedulerPredicate
    /\ pcSched' = "waiting"
    /\ globalMutex' = Unlocked
    /\ UNCHANGED <<tanks, healers, dps, t1, t2, partyNum, stopFlag, instances,
                   pcInst, duration, loopI, input>>

\* one pass of the loop body with the mutex held: the stopFlag test, the
\* assignment loop, the stop condition and the back-off
SchedCycle ==
    /\ pcSched = "check"
    /\ globalMutex = ByScheduler
    /\ SchedulerPredicate
    /\ IF stopFlag
       THEN /\ pcSched' = "done"
            /\ globalMutex' = Unlocked
            /\ UNCHANGED <<tanks, healers, dps, partyNum, stopFlag, instances, pcInst>>
       ELSE LET target == AssignTarget(instances, tanks, healers, dps)
                partyAssigned == target # 0
                pool == IF partyAssigned THEN Debit(<<tanks, healers, dps>>)
                        ELSE <<tanks, healers, dps>>
                insts == IF partyAssigned
                         THEN [instances EXCEPT ![target].hasParty = TRUE]
                         ELSE instances
                pcs == IF partyAssigned THEN NotifyInstances(pcInst, {target})
                       ELSE pcInst
                stop == ~HasMorePlayers(pool[1], pool[2], pool[3]) /\ ~AnyRunning(insts)
            IN  /\ tanks' = pool[1]
                /\ healers' = pool[2]
                /\ dps' = pool[3]
                /\ partyNum' = IF partyAssigned THEN partyNum + 1 ELSE partyNum
                /\ instances' = insts
                /\ stopFlag' = stop
                /\ pcInst' = IF stop THEN NotifyInstances(pcs, 1..Len(pcs)) ELSE pcs
                /\ pcSched' = IF stop THEN "done"
                              ELSE IF partyAssigned THEN "check" ELSE "backoff"
                /\ globalMutex' = IF stop \/ ~partyAssigned THEN Unlocked ELSE ByScheduler
    /\ UNCHANGED <<t1, t2, duration, loopI, input>>

\* ---- condition variables ---------------------------------------------------

\* wait() may return without a notification; the predicate is then re-evaluated
SpuriousWake ==
    /\ \/ /\ pcSched = "waiting"
          /\ pcSched' = "woken"
          /\ UNCHANGED pcInst
       \/ /\ \E i \in Slots :
               /\ pcInst[i] = "waiting"
               /\ pcInst' = [pcInst EXCEPT ![i] = "woken"]
          /\ UNCHANGED pcSched
    /\ UNCHANGED <<tanks, healers, dps, t1, t2, partyNum, stopFlag, instances,
                   globalMutex, duration, loopI, input>>

InstStep(i) ==
    \/ InstLock(i)
    \/ InstExit(i)
    \/ InstWait(i)
    \/ InstBegin(i)
    \/ InstFirstTick(i)
    \/ InstTick(i)
    \/ InstTicksDone(i)
    \/ InstComplete(i)

SchedStep ==
    \/ SchedLock
    \/ SchedWait
    \/ SchedCycle

Next ==
    \/ \E i \in Slots : InstStep(i)
    \/ SchedStep
    \/ SpuriousWake

Spec == Init /\ [][Next]_vars

\* ---- fair scheduling -------------------------------------------------------

\* the steps instance i takes without waiting for the mutex
InstRun(i) ==
    /\ i \in Slots
    /\ \/ InstExit(i)
       \/ InstWait(i)
       \/ InstBegin(i)
       \/ InstFirstTick(i)
       \/ InstTick(i)
       \/ InstTicksDone(i)
       \/ InstComplete(i)

InstAcquire(i) == i \in Slots /\ InstLock(i)

\* Every runnable thread keeps running, and a thread that finds the mutex
\* free again and again eventually gets it. Spurious wake-ups are never owed.
Fairness ==
    /\ WF_vars(SchedWait \/ SchedCycle)
    /\ SF_vars(SchedLock)
    /\ \A i \in 1..MaxInstances : WF_vars(InstRun(i)) /\ SF_vars(InstAcquire(i))

\* The fair runs of every configuration whose durations are drawn from the
\* widest range, 0..MaxTime. A run with a narrower range draws each of its
\* durations from that range too, and t1 and t2 are read nowhere else.
LiveInit == Init /\ t1 = 0 /\ t2 = MaxTime

LiveSpec == LiveInit /\ [][Next]_vars /\ Fairness

\* ---- derived quantities ----------------------------------------------------

RECURSIVE TotalServed(_)
\* sum of partiesServed over the instances (the summary's per-instance counts)
TotalServed(insts) ==
    IF Len(insts) = 0 THEN 0
    ELSE insts[Len(insts)].partiesServed + TotalServed(SubSeq(insts, 1, Len(insts) - 1))

\* instances holding a party that has been taken from the pool and not yet completed
InFlight == Cardinality({i \in Slots : instances[i].hasParty})

AllExited == pcSched = "done" /\ \A i \in Slots : pcInst[i] = "done"

\* ---- claims ----------------------------------------------------------------

\* C1: resource conservation. For each resource kind, the parties completed
\* by all instances plus the parties handed out and not yet completed, times
\* the rule's cost, plus the current pool level, equal the initial pool level.
C1_Conservation ==
    LET parties == TotalServed(instances) + InFlight
    IN  /\ parties * TankCost + tanks = input[1]
        /\ parties * HealerCost + healers = input[2]
        /\ parties * DpsCost + dps = input[3]

\* one party completed, another one handed out and still in flight
C1_Witness == TotalServed(instances) >= 1 /\ InFlight >= 1

\* C2: no pool counter is ever negative, whatever the interleaving and the
\* (non-negative) initial pool.
C2_PoolNonNegative == tanks >= 0 /\ healers >= 0 /\ dps >= 0

\* the pool has been debited down to exactly nothing
C2_Witness == partyNum > 1 /\ tanks = 0 /\ healers = 0 /\ dps = 0

\* C3: for every instance, 0 <= elapsed <= assigned duration while it is
\* running, and elapsed = 0 while it is idle, a drawn duration of 0 included.
C3_ElapsedWithinDuration ==
    \A i \in Slots :
        /\ instances[i].running =>
              /\ 0 <= instances[i].currentTimeElapsed
              /\ instances[i].currentTimeElapsed <= instances[i].currDungeonDuration
        /\ IsFree(instances[i]) => instances[i].currentTimeElapsed = 0

\* C4: with no instances at all the scheduler signals shutdown in its first
\* loop iteration, without an assignment, whatever the pool holds: it is
\* either still before that iteration or has left the loop with stopFlag set.
C4_NoInstancesStopsAtOnce ==
    Len(instances) = 0 =>
        /\ pcSched \in {"start", "check", "done"}
        /\ pcSched = "done" => stopFlag /\ partyNum = 1
        /\ stopFlag => pcSched = "done"

\* C5: termination. From every initial configuration, under fair scheduling,
\* shutdown is eventually signaled.
C5_EventuallyShutdown == <>stopFlag

\* the pool satisfies the rule and some instance is idle, before shutdown
Assignable == ~stopFlag /\ HasMorePlayers(tanks, healers, dps) /\ AnyFree(instances)

\* C6: liveness of assignment. Whenever the pool satisfies the rule and an
\* instance is idle, the scheduler eventually forms the next party (partyNum
\* moves past its current value; with a tank left, at most MaxTanks - 1
\* parties have been formed so far).
C6_AssignmentHappens ==
    \A k \in 1..MaxTanks : (Assignable /\ partyNum = k) ~> (partyNum > k)

\* a second party has been formed and handed to an instance that had become idle again
C6_Witness ==
    /\ partyNum >= 3
    /\ \E i \in Slots : instances[i].hasParty /\ instances[i].partiesServed >= 1

\* C7: shutdown is signaled only when the pool cannot form another party and
\* no instance holds a party or is running.
C7_ShutdownOnlyWhenDrained ==
    stopFlag =>
        /\ ~HasMorePlayers(tanks, healers, dps)
        /\ \A i \in Slots : IsFree(instances[i])

\* shutdown after at least one party was served
C7_Witness == stopFlag /\ TotalServed(instances) >= 1

\* C8: shutdown is one-shot and irreversible. Once stopFlag is set it stays
\* set, the pool is never debited and no party is formed or handed out again,
\* and under fair scheduling the scheduler and every instance thread exit.
C8_ShutdownIrreversible ==
    /\ [][stopFlag =>
            /\ stopFlag'
            /\ UNCHANGED <<tanks, healers, dps, partyNum>>
            /\ \A i \in Slots : instances'[i].hasParty = instances[i].hasParty]_vars
    /\ stopFlag ~> AllExited

\* after shutdown every thread has exited, an instance that served a party included
C8_Witness == stopFlag /\ AllExited /\ Len(instances) >= 2 /\ TotalServed(instances) >= 1

\* instances=1, tanks=1, healers=1, dps=3, durations in [2,2]
ScenarioA == Len(instances) = 1 /\ input = <<1, 1, 3>> /\ t1 = 2 /\ t2 = 2

\* instances=2, tanks=2, healers=2, dps=6, durations in [1,1]
ScenarioB == Len(instances) = 2 /\ input = <<2, 2, 6>> /\ t1 = 1 /\ t2 = 1

\* the fair runs of the two configurations the scenarios name
ScenarioInit == Init /\ (ScenarioA \/ ScenarioB)

ScenarioSpec == ScenarioInit /\ [][Next]_vars /\ Fairness

\* C9: scenario A. Exactly one party is formed, its run advances elapsed
\* exactly two ticks, then shutdown is signaled; at shutdown the pool is
\* (0,0,0) and the instance has 1 completion and 2 occupied seconds.
C9_ScenarioA ==
    /\ [](ScenarioA =>
            /\ partyNum <= 2
            /\ pcInst[1] \in {"relock", "complete"} =>
                  instances[1].currentTimeElapsed = 2
            /\ stopFlag =>
                  /\ partyNum = 2
                  /\ <<tanks, healers, dps>> = <<0, 0, 0>>
                  /\ instances[1].partiesServed = 1
                  /\ instances[1].totalTime = 2)
    /\ ScenarioA ~> stopFlag

\* scenario A has run to the end
C9_Witness == ScenarioA /\ stopFlag /\ AllExited /\ instances[1].totalTime = 2

\* C10: scenario B. Exactly two parties are formed, both complete, the pool
\* reaches (0,0,0), and shutdown is signaled, only after both completions.
C10_ScenarioB ==
    /\ [](ScenarioB =>
            /\ partyNum <= 3
            /\ stopFlag =>
                  /\ partyNum = 3
                  /\ TotalServed(instances) = 2
                  /\ <<tanks, healers, dps>> = <<0, 0, 0>>)
    /\ ScenarioB ~> stopFlag

\* scenario B has ended with one completion on each instance
C10_Witness ==
    /\ ScenarioB /\ stopFlag
    /\ instances[1].partiesServed = 1 /\ instances[2].partiesServed = 1

\* C11: scenario D. With no tanks no party is ever formed, the pool never
\* changes, no instance ever completes a run, the scheduler passes its first
\* loop iteration straight into shutdown (it never backs off or blocks), and
\* under fair scheduling that shutdown happens.
C11_ScenarioD ==
    /\ [](input[1] = 0 =>
            /\ partyNum = 1
            /\ <<tanks, healers, dps>> = input
            /\ \A i \in Slots : IsFree(instances[i]) /\ instances[i].partiesServed = 0
            /\ pcSched \in {"start", "check", "done"}
            /\ stopFlag <=> pcSched = "done")
    /\ input[1] = 0 ~> stopFlag

\* shutdown with healers and dps to spare, two instances and no tank
C11_Witness ==
    /\ input[1] = 0 /\ input[2] >= 1 /\ input[3] >= DpsCost
    /\ Len(instances) >= 2 /\ stopFlag /\ AllExited

\* C12: every write to a pool counter or to an instance's state (flags,
\* assigned duration, elapsed counter, lifetime counters) is a step of a
\* thread that holds globalMutex when it takes the step.
C12_WritesUnderMutex ==
    [][/\ <<tanks, healers, dps>>' # <<tanks, healers, dps>> =>
             globalMutex = ByScheduler /\ SchedStep
       /\ \A i \in Slots :
             instances'[i] # instances[i] =>
                \/ globalMutex = ByScheduler /\ SchedStep
                \/ globalMutex = ByInstance(i) /\ InstStep(i)]_vars

\* instance i is handed a party in this step
Assigned(i) == ~instances[i].hasParty /\ instances'[i].hasParty

\* C13: a step hands a party to at most one instance, and the instance it
\* picks is the first idle one in ascending id order: it was idle (no party,
\* not running) and no instance with a smaller id was idle. An instance that
\* holds a party or is running is therefore never handed another one.
C13_FirstIdleOnly ==
    [][\A i \in Slots :
          Assigned(i) =>
             /\ IsFree(instances[i])
             /\ instances[i].id = i
             /\ \A j \in 1..(i - 1) : ~IsFree(instances[j])
             /\ \A j \in Slots \ {i} : ~Assigned(j)
             /\ partyNum' = partyNum + 1]_vars

\* both instances hold a party: the second got its party while the first was busy
C13_Witness ==
    /\ Len(instances) >= 2
    /\ instances[1].hasParty
    /\ instances[2].hasParty

\* the pool as a triple
Pool == <<tanks, healers, dps>>

\* C14: every step leaves the pool alone or takes exactly (1,1,3) from it.
\* A step that takes is a step of the scheduler holding the mutex, from a pool
\* of at least (1,1,3), and hands a party to an idle instance in the same
\* step. Steps of instance threads and wake-ups never change the pool, so the
\* pool never grows.
C14_PoolFrame ==
    [][/\ Pool' = Pool \/ Pool' = <<tanks - 1, healers - 1, dps - 3>>
       /\ Pool' # Pool =>
             /\ SchedCycle
             /\ globalMutex = ByScheduler
             /\ tanks >= 1 /\ healers >= 1 /\ dps >= 3
             /\ \E i \in Slots : IsFree(instances[i]) /\ instances'[i].hasParty
       /\ (\E i \in Slots : InstStep(i)) \/ SpuriousWake => Pool' = Pool
       /\ tanks' <= tanks /\ healers' <= healers /\ dps' <= dps]_vars

\* the pool has been debited twice
C14_Witness == Pool = <<input[1] - 2, input[2] - 2, input[3] - 6>>

C16_ElapsedEqualsDuration ==
    \A i \in Slots :
        pcInst[i] \in {"relock", "complete"} =>
            instances[i].currentTimeElapsed = instances[i].currDungeonDuration

\* C17: a completion is one step of the instance's thread holding the mutex.
\* It takes the instance from running with a party to idle, adds exactly 1 to
\* its completions and exactly the duration assigned to this run to its
\* occupied seconds, resets elapsed to 0 and changes neither another instance
\* nor the pool. Hence completions * t1 <= occupied seconds <= completions * t2
\* for every instance at all times.
C17_CompletionFrame ==
    /\ [][\A i \in Slots :
             instances'[i].partiesServed # instances[i].partiesServed
                \/ instances'[i].totalTime # instances[i].totalTime
                \/ (instances[i].running /\ ~instances'[i].running) =>
                /\ globalMutex = ByInstance(i) /\ InstComplete(i)
                /\ instances[i].running /\ instances[i].hasParty
                /\ IsFree(instances'[i])
                /\ instances'[i].partiesServed = instances[i].partiesServed + 1
                /\ instances'[i].totalTime =
                      instances[i].totalTime + instances[i].currDungeonDuration
                /\ instances'[i].currentTimeElapsed = 0
                /\ \A j \in Slots \ {i} : instances'[j] = instances[j]
                /\ Pool' = Pool]_vars
    /\ [](\A i \in Slots :
             /\ instances[i].partiesServed * t1 <= instances[i].totalTime
             /\ instances[i].totalTime <= instances[i].partiesServed * t2)

\* an instance has completed two runs of different lengths
C17_Witness ==
    \E i \in Slots :
        /\ instances[i].partiesServed = 2
        /\ instances[i].totalTime > 2 * t1
        /\ instances[i].totalTime < 2 * t2

\* C18: no party is abandoned. An instance thread never leaves through the
\* stopFlag branch while it holds a party; a party leaves an instance only by
\* a completion that counts it once; under fair scheduling every party handed
\* out is completed (again and again no party is in flight); and once
\* shutdown is signaled the parties formed equal the completions.
C18_NoAbandonedParty ==
    /\ [](\A i \in Slots : pcInst[i] = "done" => ~instances[i].hasParty)
    /\ [][\A i \in Slots :
             /\ pcInst'[i] = "done" /\ pcInst[i] # "done" => ~instances[i].hasParty
             /\ instances[i].hasParty /\ ~instances'[i].hasParty =>
                   instances'[i].partiesServed = instances[i].partiesServed + 1]_vars
    /\ []<>(InFlight = 0)
    /\ [](stopFlag => partyNum - 1 = TotalServed(instances))

\* shutdown after a party was formed for each of two instances and completed
C18_Witness ==
    /\ stopFlag /\ AllExited /\ partyNum = 3
    /\ Len(instances) >= 2
    /\ \A i \in 1..2 : instances[i].partiesServed = 1

\* the smallest of three numbers
Min3(a, b, c) == IF a <= b /\ a <= c THEN a ELSE IF b <= c THEN b ELSE c

\* parties the initial pool (T, H, D) can form: min(T, H, floor(D / 3))
MaxParties == Min3(input[1], input[2], input[3] \div 3)

\* C19: with at least one instance, when shutdown is signaled the completions
\* of all instances add up to min(T, H, floor(D/3)) of the initial pool and
\* the pool is the initial pool less that many parties, whatever the number
\* of instances, the durations drawn and the interleaving.
C19_PoolDrained ==
    Len(instances) >= 1 /\ stopFlag =>
        /\ TotalServed(instances) = MaxParties
        /\ Pool = <<input[1] - MaxParties, input[2] - MaxParties, input[3] - 3 * MaxParties>>

\* shutdown after one party was served, with tanks and dps left over
C19_Witness ==
    /\ Len(instances) >= 1 /\ stopFlag
    /\ TotalServed(instances) = 1
    /\ tanks >= 1 /\ dps >= 1

\* C20: no deadlock and no lost wake-up. With at least one instance there is
\* no state before shutdown in which the scheduler is blocked in its wait and
\* every instance thread is blocked waiting for a party. While the scheduler
\* is blocked the pool cannot form a party and every instance holds a party
\* or is running, and the completion of any instance wakes it.
C20_NoLostWakeup ==
    /\ [](Len(instances) >= 1 /\ ~stopFlag =>
             ~(pcSched = "waiting" /\ \A i \in Slots : pcInst[i] = "waiting"))
    /\ [](pcSched = "waiting" =>
             /\ ~HasMorePlayers(tanks, healers, dps)
             /\ \A i \in Slots : instances[i].hasParty \/ instances[i].running)
    /\ [](\A i \in Slots : pcInst[i] = "waiting" /\ ~stopFlag => IsFree(instances[i]))
    /\ [][\A i \in Slots :
             pcSched = "waiting" /\ InstComplete(i) => pcSched' = "woken"]_vars

\* the scheduler was blocked with both instances busy and a completion woke it
C20_Witness ==
    /\ Len(instances) >= 2
    /\ pcSched = "woken"
    /\ ~HasMorePlayers(tanks, healers, dps)
    /\ \E i \in Slots : IsFree(instances[i]) /\ instances[i].partiesServed >= 1
    /\ \E i \in Slots : instances[i].running

====
